---------------------------- MODULE Spec2Model ----------------------------
(***************************************************************************)
(* Model of services/iot_service/iot_service.py: an MQTT listener that     *)
(* normalises sensor messages and inserts them into a relational store.    *)
(*                                                                         *)
(* Python values are records [t |-> type, s |-> literal], the literal a    *)
(* sequence of text pieces (<<>> is the empty text).  A JSON object is a   *)
(* function over Keys; a key the object does not carry maps to Absent.     *)
(***************************************************************************)
EXTENDS Integers, Sequences, FiniteSets, TLC

VARIABLES
    pc,         \* position of the main thread
    hpc,        \* position inside on_message / store_sensor_data
    store,      \* the store server: "up" or "down"
    broker,     \* the bus broker: "up" or "down"
    attempts,   \* connection attempts made by get_db_connection (saturating)
    slept,      \* the delay of the latest time.sleep of get_db_connection
    conn,       \* status of the handle db_conn
    pending,    \* rows executed on db_conn and not yet committed
    rows,       \* rows committed to table sensor_data
    bus,        \* state of the bus client
    subscribed, \* whether the client holds the wildcard subscription
    msg,        \* payload of the message being handled
    cur,        \* db_data of the call of store_sensor_data in progress
    last,       \* how the latest call of on_message ended
    calls,      \* calls made on db_conn by the store_sensor_data call in progress
    exitKind,   \* how the process ended: through which handler (kind), or where
                \* (at) which uncaught exception (exc) ended it
    connects    \* calls of on_connect so far (saturating)

vars == <<pc, hpc, store, broker, attempts, slept, conn, pending, rows, bus,
          subscribed, msg, cur, last, calls, exitKind, connects>>

-----------------------------------------------------------------------------
(* Bounds of the model *)

MaxKeys == 2        \* keys carried by an inbound object of the normaliser runs
MaxRows == 2        \* rows the table holds before the model stops delivering
MaxAttempts == 5    \* value at which the attempt counter saturates
MaxConnects == 2    \* value at which the count of on_connect calls saturates

-----------------------------------------------------------------------------
(* Python values *)

None == [t |-> "none", s |-> <<>>]
Absent == [t |-> "absent", s |-> <<>>]
VStr(x) == [t |-> "str", s |-> x]
VInt(x) == [t |-> "int", s |-> <<x>>]
VFloat(x) == [t |-> "float", s |-> <<x>>]
VBool(x) == [t |-> "bool", s |-> <<x>>]
VList(x) == [t |-> "list", s |-> x]
VDatetime(body, tz) == [t |-> "datetime", s |-> <<body, tz>>]

\* The result of an expression that may raise: exc = "" when it returned val.
Ok(v) == [exc |-> "", val |-> v]
Raise(e) == [exc |-> e, val |-> None]

\* Text pieces Python's int() accepts in a str.
IntLiterals == {"5", "0", "1883"}
\* Text pieces Python's float() accepts in a str besides the int literals.
FloatLiterals == {"21.5", "inf", "nan"}
\* int values too large for a float (JSON integers are unbounded in Python).
HugeInts == {"10**400"}

\* bool(v): Python truthiness.
Truthy(v) ==
    CASE v.t = "none" -> FALSE
      [] v.t = "bool" -> v.s = <<"True">>
      [] v.t = "int" -> v.s # <<"0">>
      [] v.t = "float" -> v.s # <<"0.0">>
      [] OTHER -> v.s # <<>>

\* int(v)
PyInt(v) ==
    CASE v.t = "int" -> Ok(v)
      [] v.t = "bool" -> Ok(VInt(IF v.s = <<"True">> THEN "1" ELSE "0"))
      [] v.t = "float" ->
            IF v.s = <<"inf">> THEN Raise("OverflowError")
            ELSE IF v.s = <<"nan">> THEN Raise("ValueError")
            ELSE IF v.s = <<"21.5">> THEN Ok(VInt("21"))
            ELSE Ok(VInt("5"))
      [] v.t = "str" ->
            IF Len(v.s) = 1 /\ v.s[1] \in IntLiterals
            THEN Ok(VInt(v.s[1])) ELSE Raise("ValueError")
      [] OTHER -> Raise("TypeError")

\* float(v)
PyFloat(v) ==
    CASE v.t = "float" -> Ok(v)
      [] v.t = "bool" -> Ok(VFloat(IF v.s = <<"True">> THEN "1.0" ELSE "0.0"))
      [] v.t = "int" ->
            IF v.s[1] \in HugeInts THEN Raise("OverflowError")
            ELSE Ok(VFloat(IF v.s = <<"0">> THEN "0.0" ELSE "5.0"))
      [] v.t = "str" ->
            IF Len(v.s) = 1 /\ v.s[1] \in FloatLiterals THEN Ok(VFloat(v.s[1]))
            ELSE IF Len(v.s) = 1 /\ v.s[1] \in IntLiterals
            THEN Ok(VFloat(IF v.s = <<"0">> THEN "0.0" ELSE "5.0"))
            ELSE Raise("ValueError")
      [] OTHER -> Raise("TypeError")

\* str(v): a str is returned as it is, any other value as its printed form.
PyStr(v) ==
    CASE v.t = "str" -> v
      [] v.t = "list" -> VStr(<<"[">> \o v.s \o <<"]">>)
      [] v.t = "dict" -> VStr(<<"{...}">>)
      [] OTHER -> VStr(v.s)

-----------------------------------------------------------------------------
(* Payloads.  The text of a payload is a sequence of pieces: an undecodable *)
(* byte, the marker "MQTT event:", text that is not JSON and has no '{',    *)
(* text that starts with '{' and is not JSON, or the text of a JSON value.   *)

\* expected_fields of store_sensor_data, in the order of the INSERT.
expected_fields ==
    <<"time", "device_id", "event_type", "temperature", "humidity",
      "pressure", "temp_sensor_type", "motion", "switch", "version", "uptime",
      "wifi_rssi", "uptime_seconds", "fan_pwm", "fans_active_level">>

numeric_fields ==
    <<"temperature", "humidity", "pressure", "wifi_rssi", "uptime_seconds",
      "fan_pwm", "fans_active_level">>

int_fields == {"uptime_seconds", "fan_pwm", "fans_active_level", "wifi_rssi"}

text_fields == <<"motion", "switch", "version", "uptime", "temp_sensor_type">>

Range(f) == {f[i] : i \in DOMAIN f}

Keys == Range(expected_fields) \cup {"timestamp"}

EmptyDict == [k \in Keys |-> Absent]

VDict == [t |-> "dict", s |-> <<"{">>]

BadByte == [kind |-> "bad", lit |-> None, obj |-> EmptyDict]
Marker == [kind |-> "marker", lit |-> None, obj |-> EmptyDict]
Junk == [kind |-> "junk", lit |-> None, obj |-> EmptyDict]
Brace == [kind |-> "brace", lit |-> None, obj |-> EmptyDict]
JsonLit(v) == [kind |-> "json", lit |-> v, obj |-> EmptyDict]
JsonObj(o) == [kind |-> "json", lit |-> VDict, obj |-> o]

\* msg.payload.decode()
decode(payload) ==
    IF \E i \in DOMAIN payload : payload[i].kind = "bad"
    THEN [exc |-> "UnicodeDecodeError", text |-> <<>>]
    ELSE [exc |-> "", text |-> payload]

\* "MQTT event:" in message_text
HasMarker(text) == \E i \in DOMAIN text : text[i].kind = "marker"

HasBrace(piece) ==
    piece.kind = "brace" \/ (piece.kind = "json" /\ piece.lit.t = "dict")

\* message_text.find("{"): the first piece with a '{', -1 when there is none.
find(text) ==
    IF \E i \in DOMAIN text : HasBrace(text[i])
    THEN CHOOSE i \in DOMAIN text :
            HasBrace(text[i]) /\ \A j \in 1..(i - 1) : ~HasBrace(text[j])
    ELSE -1

\* json.loads(text): the text must be one JSON value and nothing else.
loads(text) ==
    IF Len(text) = 1 /\ text[1].kind = "json"
    THEN [exc |-> "", lit |-> text[1].lit, obj |-> text[1].obj]
    ELSE [exc |-> "JSONDecodeError", lit |-> None, obj |-> EmptyDict]

\* An extraction that parses the whole text, marker or not.
ExtractJsonWholeText(text) == loads(text)

\* Lines 160-170 of on_message: the JSON value of the decoded text.
ExtractJson(text) ==
    IF HasMarker(text)
    THEN LET json_start == find(text)
         IN  IF json_start # -1
             THEN loads(SubSeq(text, json_start, Len(text)))
             ELSE [exc |-> "ValueError", lit |-> None, obj |-> EmptyDict]
    ELSE loads(text)

DateBodies == {"2025-04-21T17:21:47"}
Offsets == {"+02:00"}

\* datetime.fromisoformat(s): a naive datetime has tz "".
fromisoformat(s) ==
    IF Len(s) = 1 /\ s[1] \in DateBodies THEN Ok(VDatetime(s[1], ""))
    ELSE IF Len(s) = 2 /\ s[1] \in DateBodies /\ s[2] \in Offsets
    THEN Ok(VDatetime(s[1], s[2]))
    ELSE Raise("ValueError")

\* A replace that leaves the datetime as it was.
ReplaceUTCForgotten(dt) == dt

\* dt.replace(tzinfo=pytz.UTC)
ReplaceUTC(dt) == VDatetime(dt.s[1], "UTC")

\* Lines 176-190 of on_message: data["timestamp"] parsed in place.
ParseTimestamp(data) ==
    LET ts == data["timestamp"]
    IN  IF ts.t # "absent" /\ Truthy(ts)
        THEN IF ts.t # "str" THEN [exc |-> "AttributeError", data |-> data]
             ELSE IF ts.s[Len(ts.s)] = "Z"
             THEN LET dt == fromisoformat(SubSeq(ts.s, 1, Len(ts.s) - 1))
                  IN  IF dt.exc # "" THEN [exc |-> dt.exc, data |-> data]
                      ELSE [exc |-> "",
                            data |-> [data EXCEPT !["timestamp"] = ReplaceUTC(dt.val)]]
             ELSE LET dt == fromisoformat(ts.s)
                  IN  IF dt.exc # "" THEN [exc |-> dt.exc, data |-> data]
                      ELSE IF dt.val.s[2] = ""
                      THEN [exc |-> "",
                            data |-> [data EXCEPT !["timestamp"] = ReplaceUTC(dt.val)]]
                      ELSE [exc |-> "",
                            data |-> [data EXCEPT !["timestamp"] = dt.val]]
        ELSE [exc |-> "", data |-> data]

\* Lines 154-190 of on_message, up to the call of store_sensor_data:
\* bound tells whether message_text was assigned, exc what was raised.
Normalize(payload) ==
    LET d == decode(payload)
    IN  IF d.exc # "" THEN [exc |-> d.exc, bound |-> FALSE, data |-> EmptyDict]
        ELSE LET j == ExtractJson(d.text)
             IN  IF j.exc # "" THEN [exc |-> j.exc, bound |-> TRUE, data |-> EmptyDict]
                 ELSE IF j.lit.t # "dict"
                 THEN [exc |-> "AttributeError", bound |-> TRUE, data |-> EmptyDict]
                 ELSE LET p == ParseTimestamp(j.obj)
                      IN  [exc |-> p.exc, bound |-> TRUE, data |-> p.data]

-----------------------------------------------------------------------------
(* store_sensor_data, up to the INSERT *)

\* A setdefault that sets nothing.
setdefaultSkipped(d, key, value) == d

\* db_data.setdefault(key, value)
setdefault(d, key, value) ==
    IF d[key].t = "absent" THEN [d EXCEPT ![key] = value] ELSE d

\* A per-field try that lets ValueError through.
CoercionCaughtTypeErrorOnly == {"TypeError"}

\* Exceptions the per-field try of lines 78-88 catches.
CoercionCaught == {"ValueError", "TypeError"}

\* Lines 77-88: one turn of the loop over numeric_fields.
CoerceField(d, key) ==
    IF d[key].t \notin {"absent", "none"}
    THEN LET r == IF key \in int_fields THEN PyInt(d[key]) ELSE PyFloat(d[key])
         IN  IF r.exc = "" THEN [exc |-> "", d |-> [d EXCEPT ![key] = r.val]]
             ELSE IF r.exc \in CoercionCaught
             THEN [exc |-> "", d |-> [d EXCEPT ![key] = None]]
             ELSE [exc |-> r.exc, d |-> d]
    ELSE [exc |-> "", d |-> d]

\* Lines 76-88: the loop from its i-th turn on; it ends at the first exception
\* that leaves the per-field try.
RECURSIVE CoerceNumeric(_, _)
CoerceNumeric(d, i) ==
    IF i > Len(numeric_fields) THEN [exc |-> "", d |-> d]
    ELSE LET r == CoerceField(d, numeric_fields[i])
         IN  IF r.exc # "" THEN r ELSE CoerceNumeric(r.d, i + 1)

\* Lines 92-94: text fields that are present and not None go through str().
CoerceText(d) ==
    [k \in Keys |->
        IF k \in Range(text_fields) /\ d[k].t \notin {"absent", "none"}
        THEN PyStr(d[k]) ELSE d[k]]

\* Lines 97-98: timestamp is renamed to time.
RenameTimestamp(d) ==
    IF d["timestamp"].t # "absent"
    THEN [d EXCEPT !["time"] = d["timestamp"], !["timestamp"] = Absent]
    ELSE d

\* A fill whose list of fields lacks time.
FillExpectedButTime(d) ==
    [k \in Keys |->
        IF k \in Range(expected_fields) \ {"time"} /\ d[k].t = "absent"
        THEN None ELSE d[k]]

\* Lines 107-109: every expected field the record lacks is set to None.
FillExpected(d) ==
    [k \in Keys |->
        IF k \in Range(expected_fields) /\ d[k].t = "absent" THEN None ELSE d[k]]

\* Lines 69-109 of store_sensor_data: db_data as handed to cursor.execute, or
\* the exception that sends the call to its except Exception handler.
BuildDbData(data) ==
    LET d1 == setdefault(data, "event_type", VStr(<<"unknown">>))
        c == CoerceNumeric(d1, 1)
    IN  IF c.exc # "" THEN [exc |-> c.exc, db_data |-> c.d]
        ELSE [exc |-> "", db_data |-> FillExpected(RenameTimestamp(CoerceText(c.d)))]

-----------------------------------------------------------------------------
(* Inputs *)

\* Values an inbound object may give a key.
NumericValues ==
    {None, VInt("5"), VInt("10**400"), VFloat("21.5"), VFloat("inf"),
     VFloat("nan"), VStr(<<"21.5">>), VStr(<<"abc">>), VBool("True"),
     VList(<<"1">>), VDict}
TextValues == {None, VStr(<<"on">>), VInt("5")}
TimestampValues ==
    {None, VStr(<<>>), VInt("0"), VInt("5"),
     VStr(<<"2025-04-21T17:21:47", "Z">>),
     VStr(<<"2025-04-21T17:21:47", "+02:00", "Z">>),
     VStr(<<"2025-04-21T17:21:47", "+02:00">>),
     VStr(<<"2025-04-21T17:21:47">>),
     VStr(<<"yesterday">>), VStr(<<"Z">>)}

ValuesOf(k) ==
    CASE k \in Range(numeric_fields) -> NumericValues
      [] k \in Range(text_fields) -> TextValues
      [] k = "timestamp" -> TimestampValues
      [] k = "time" -> {VStr(<<"yesterday">>)}
      [] k = "device_id" -> {None, VStr(<<"d1">>)}
      [] k = "event_type" -> {None, VStr(<<"telemetry">>), VInt("5")}

\* The round-trip example of the specification.
Telemetry ==
    [EmptyDict EXCEPT !["device_id"] = VStr(<<"d1">>),
                      !["event_type"] = VStr(<<"telemetry">>),
                      !["temperature"] = VStr(<<"21.5">>),
                      !["timestamp"] = VStr(<<"2025-04-21T17:21:47", "Z">>)]

\* Payloads the listener is fed in the runs of the whole service.
Payloads ==
    {<<BadByte>>,
     <<Junk>>,
     <<Marker, Junk>>,
     <<JsonLit(VList(<<"1">>))>>,
     <<JsonObj(Telemetry)>>,
     <<Marker, JsonObj([EmptyDict EXCEPT !["device_id"] = VStr(<<"d2">>)])>>,
     <<JsonObj([Telemetry EXCEPT !["timestamp"] = VStr(<<"yesterday">>)])>>,
     <<JsonObj([Telemetry EXCEPT !["wifi_rssi"] = VFloat("inf")])>>}

\* Payloads of the runs that exercise normalisation alone, besides the
\* objects a device composes key by key.
NormPayloads ==
    Payloads
    \cup {<<Marker, Junk, JsonObj(Telemetry)>>, <<Junk, JsonObj(Telemetry)>>,
          <<Marker, Brace>>, <<Marker, JsonObj(Telemetry), Junk>>,
          <<Marker, JsonLit(None)>>, <<JsonLit(VInt("5"))>>,
          <<Marker, Brace, JsonObj(Telemetry)>>}

-----------------------------------------------------------------------------
(* The process *)

RetryDelay == 5

Min(a, b) == IF a < b THEN a ELSE b

\* Outcomes of psycopg2.connect: a connection from a store that is up; from
\* one that is down OperationalError, or another exception (psycopg2 has
\* raised UnicodeDecodeError on a server message it cannot decode).
ConnectOutcomes(s) ==
    IF s = "up" THEN {"ok"} ELSE {"OperationalError", "UnicodeDecodeError"}

\* An except clause that catches nothing.
ConnectCaughtNothing == {}

\* The exceptions the except clause of get_db_connection names.
ConnectCaught == {"OperationalError"}

\* Values of the environment variable MQTT_PORT.
PortSettings == {VStr(<<"1883">>), VStr(<<"abc">>)}

Running == [kind |-> "", at |-> "", exc |-> ""]

\* The process dies of exception exc raised at position at.
Uncaught(at, exc) == [kind |-> "uncaught", at |-> at, exc |-> exc]

Init ==
    /\ pc = "db_connect"
    /\ hpc = "idle"
    /\ store \in {"up", "down"}
    /\ broker \in {"up", "down"}
    /\ attempts = 0
    /\ slept = 0
    /\ conn = "none"
    /\ pending = <<>>
    /\ rows = <<>>
    /\ bus = "none"
    /\ subscribed = FALSE
    /\ msg = <<>>
    /\ cur = EmptyDict
    /\ last = ""
    /\ calls = <<>>
    /\ exitKind = Running
    /\ connects = 0

\* The environment: the store server and the broker come and go.
StoreChange ==
    /\ store' = IF store = "up" THEN "down" ELSE "up"
    /\ UNCHANGED <<pc, hpc, broker, attempts, slept, conn, pending, rows, bus,
                   subscribed, msg, cur, last, calls, exitKind, connects>>

BrokerChange ==
    /\ broker' = IF broker = "up" THEN "down" ELSE "up"
    /\ UNCHANGED <<pc, hpc, store, attempts, slept, conn, pending, rows, bus,
                   subscribed, msg, cur, last, calls, exitKind, connects>>

\* get_db_connection, lines 49-60: one attempt of the loop.
ConnectAttempt ==
    /\ pc = "db_connect"
    /\ attempts' = Min(attempts + 1, MaxAttempts)
    /\ \E outcome \in ConnectOutcomes(store) :
          IF outcome = "ok"
          THEN /\ conn' = "idle"
               /\ pc' = "setup"
               /\ exitKind' = exitKind
          ELSE IF outcome \in ConnectCaught
          THEN /\ pc' = "db_sleep"
               /\ UNCHANGED <<conn, exitKind>>
          ELSE /\ pc' = "exited"
               /\ exitKind' = Uncaught("db_connect", outcome)
               /\ conn' = conn
    /\ UNCHANGED <<hpc, store, broker, slept, pending, rows, bus, subscribed,
                   msg, cur, last, calls, connects>>

\* A loop that gives up after its second attempt.
RetrySleepTwice ==
    /\ pc = "db_sleep"
    /\ attempts < 2
    /\ slept' = RetryDelay
    /\ pc' = "db_connect"
    /\ UNCHANGED <<hpc, store, broker, attempts, conn, pending, rows, bus,
                   subscribed, msg, cur, last, calls, exitKind, connects>>

\* get_db_connection, lines 61-62: the wait before the next attempt.
RetrySleep ==
    /\ pc = "db_sleep"
    /\ slept' = RetryDelay
    /\ pc' = "db_connect"
    /\ UNCHANGED <<hpc, store, broker, attempts, conn, pending, rows, bus,
                   subscribed, msg, cur, last, calls, exitKind, connects>>

\* Lines 219-238: the client is created and the broker address read, outside
\* any try; int() of a malformed MQTT_PORT ends the process.
Setup ==
    /\ pc = "setup"
    /\ \E port \in PortSettings :
          IF PyInt(port).exc = ""
          THEN /\ bus' = "new"
               /\ pc' = "bus_connect"
               /\ exitKind' = exitKind
          ELSE /\ pc' = "exited"
               /\ exitKind' = Uncaught("setup", PyInt(port).exc)
               /\ bus' = bus
    /\ UNCHANGED <<hpc, store, broker, attempts, slept, conn, pending, rows,
                   subscribed, msg, cur, last, calls, connects>>

\* Line 241: client.connect raises when the broker cannot be reached.
BusConnect ==
    /\ pc = "bus_connect"
    /\ IF broker = "up"
       THEN /\ bus' = "connecting"
            /\ pc' = "loop"
       ELSE /\ pc' = "err_close"
            /\ bus' = bus
    /\ UNCHANGED <<hpc, store, broker, attempts, slept, conn, pending, rows,
                   subscribed, msg, cur, last, calls, exitKind, connects>>

\* An on_connect that logs and does not subscribe.
on_connectWithoutSubscribe ==
    /\ pc = "loop" /\ hpc = "idle"
    /\ bus = "connecting" /\ broker = "up"
    /\ bus' = "connected"
    /\ connects' = Min(connects + 1, MaxConnects)
    /\ UNCHANGED <<pc, hpc, store, broker, attempts, slept, conn, pending, rows,
                   subscribed, msg, cur, last, calls, exitKind>>

\* on_connect, lines 147-150: called on CONNACK, it subscribes.
on_connect ==
    /\ pc = "loop" /\ hpc = "idle"
    /\ bus = "connecting" /\ broker = "up"
    /\ bus' = "connected"
    /\ subscribed' = TRUE
    /\ connects' = Min(connects + 1, MaxConnects)
    /\ UNCHANGED <<pc, hpc, store, broker, attempts, slept, conn, pending, rows,
                   msg, cur, last, calls, exitKind>>

\* on_disconnect, lines 211-212: the connection to the broker is lost; the
\* session is clean, so the subscription goes with it.
on_disconnect ==
    /\ pc = "loop" /\ hpc = "idle"
    /\ bus \in {"connecting", "connected"} /\ broker = "down"
    /\ bus' = "disconnected"
    /\ subscribed' = FALSE
    /\ UNCHANGED <<pc, hpc, store, broker, attempts, slept, conn, pending,
                   rows, msg, cur, last, calls, exitKind, connects>>

\* loop_forever, line 242: the client library reconnects by itself.
Reconnect ==
    /\ pc = "loop" /\ hpc = "idle"
    /\ bus = "disconnected" /\ broker = "up"
    /\ bus' = "connecting"
    /\ UNCHANGED <<pc, hpc, store, broker, attempts, slept, conn, pending,
                   rows, subscribed, msg, cur, last, calls, exitKind, connects>>

\* loop_forever, line 242: a message of a subscribed topic arrives and
\* on_message is called with it.
Receive ==
    /\ pc = "loop" /\ hpc = "idle"
    /\ bus = "connected" /\ subscribed
    /\ Len(rows) < MaxRows
    /\ \E p \in Payloads : msg' = p
    /\ hpc' = "received"
    /\ cur' = EmptyDict
    /\ calls' = <<>>
    /\ last' = ""
    /\ UNCHANGED <<pc, store, broker, attempts, slept, conn, pending, rows,
                   bus, subscribed, exitKind, connects>>

\* Whether the except handlers of on_message (lines 199-204) end normally:
\* both log message_text, which is unbound when decode() itself raised.
HandlerReturns(n) == n.bound

\* on_message, lines 154-204, up to the first call on db_conn.
on_message ==
    /\ pc = "loop" /\ hpc = "received"
    /\ LET n == Normalize(msg)
       IN  IF n.exc # ""
           THEN IF HandlerReturns(n)
                THEN /\ last' = "dropped"
                     /\ hpc' = "idle"
                     /\ UNCHANGED <<pc, cur>>
                ELSE \* UnboundLocalError leaves on_message and loop_forever
                     /\ last' = "raised"
                     /\ hpc' = "idle"
                     /\ pc' = "err_close"
                     /\ cur' = cur
           ELSE LET b == BuildDbData(n.data)
                IN  /\ cur' = b.db_data
                    /\ hpc' = IF b.exc # "" THEN "rollback" ELSE "execute"
                    /\ UNCHANGED <<pc, last>>
    /\ UNCHANGED <<store, broker, attempts, slept, conn, pending, rows, bus,
                   subscribed, msg, calls, exitKind, connects>>

\* The row the INSERT of lines 117-131 makes of its parameters.
Row(db_data) == [k \in Range(expected_fields) |-> db_data[k]]

\* Verdicts of the store on a statement it receives.
Verdicts == {"ok", "reject"}

\* Lines 116-131: db_conn.cursor() and cur.execute(INSERT, db_data).
Execute ==
    /\ pc = "loop" /\ hpc = "execute"
    /\ calls' = Append(calls, "execute")
    /\ IF conn \in {"lost", "closed"}
       THEN \* InterfaceError: connection already closed
            /\ hpc' = "rollback"
            /\ UNCHANGED <<conn, pending>>
       ELSE IF \E k \in Range(expected_fields) : cur[k].t = "absent"
       THEN \* KeyError: the statement names a parameter db_data lacks
            /\ hpc' = "rollback"
            /\ UNCHANGED <<conn, pending>>
       ELSE IF conn = "inerror"
       THEN \* InFailedSqlTransaction
            /\ hpc' = "rollback"
            /\ UNCHANGED <<conn, pending>>
       ELSE IF store = "down"
       THEN \* OperationalError: the server closed the connection
            /\ hpc' = "rollback"
            /\ conn' = "lost"
            /\ pending' = <<>>
       ELSE \E v \in Verdicts :
               IF v = "ok"
               THEN /\ hpc' = "commit"
                    /\ conn' = "intrans"
                    /\ pending' = Append(pending, Row(cur))
               ELSE \* IntegrityError, DataError: the transaction is aborted
                    /\ hpc' = "rollback"
                    /\ conn' = "inerror"
                    /\ pending' = pending
    /\ UNCHANGED <<pc, store, broker, attempts, slept, rows, bus, subscribed,
                   msg, cur, last, exitKind, connects>>

\* A store that keeps one row per (time, device_id): an upsert.
CommitUpsert ==
    /\ pc = "loop" /\ hpc = "commit"
    /\ calls' = Append(calls, "commit")
    /\ IF store = "down"
       THEN /\ hpc' = "rollback"
            /\ conn' = "lost"
            /\ pending' = <<>>
            /\ UNCHANGED <<rows, last>>
       ELSE \E v \in Verdicts :
               IF v = "ok"
               THEN /\ rows' = SelectSeq(rows,
                                 LAMBDA r : \A i \in DOMAIN pending :
                                     \/ r["time"] # pending[i]["time"]
                                     \/ r["device_id"] # pending[i]["device_id"])
                             \o pending
                    /\ pending' = <<>>
                    /\ conn' = "idle"
                    /\ hpc' = "idle"
                    /\ last' = "stored"
               ELSE /\ pending' = <<>>
                    /\ conn' = "idle"
                    /\ hpc' = "rollback"
                    /\ UNCHANGED <<rows, last>>
    /\ UNCHANGED <<pc, store, broker, attempts, slept, bus, subscribed, msg,
                   cur, exitKind, connects>>

\* Line 132: db_conn.commit().
Commit ==
    /\ pc = "loop" /\ hpc = "commit"
    /\ calls' = Append(calls, "commit")
    /\ IF store = "down"
       THEN /\ hpc' = "rollback"
            /\ conn' = "lost"
            /\ pending' = <<>>
            /\ UNCHANGED <<rows, last>>
       ELSE \E v \in Verdicts :
               IF v = "ok"
               THEN /\ rows' = rows \o pending
                    /\ pending' = <<>>
                    /\ conn' = "idle"
                    /\ hpc' = "idle"
                    /\ last' = "stored"
               ELSE \* a commit the store refuses ends the transaction
                    /\ pending' = <<>>
                    /\ conn' = "idle"
                    /\ hpc' = "rollback"
                    /\ UNCHANGED <<rows, last>>
    /\ UNCHANGED <<pc, store, broker, attempts, slept, bus, subscribed, msg,
                   cur, exitKind, connects>>

\* A writer that opens a new connection when it finds the handle lost.
RollbackReconnecting ==
    /\ pc = "loop" /\ hpc = "rollback"
    /\ calls' = Append(calls, "rollback")
    /\ hpc' = "idle"
    /\ IF conn \in {"lost", "closed"}
       THEN /\ last' = "failed"
            /\ conn' = "idle"
            /\ pending' = pending
       ELSE IF conn = "idle"
       THEN /\ last' = "rolled_back"
            /\ UNCHANGED <<conn, pending>>
       ELSE IF store = "down"
       THEN /\ last' = "failed"
            /\ conn' = "lost"
            /\ pending' = <<>>
       ELSE /\ last' = "rolled_back"
            /\ conn' = "idle"
            /\ pending' = <<>>
    /\ UNCHANGED <<pc, store, broker, attempts, slept, rows, bus, subscribed,
                   msg, cur, exitKind, connects>>

\* Lines 136-144: both except clauses of store_sensor_data log and call
\* db_conn.rollback(); what rollback raises is caught by on_message.
Rollback ==
    /\ pc = "loop" /\ hpc = "rollback"
    /\ calls' = Append(calls, "rollback")
    /\ hpc' = "idle"
    /\ IF conn \in {"lost", "closed"}
       THEN /\ last' = "failed"
            /\ UNCHANGED <<conn, pending>>
       ELSE IF conn = "idle"
       THEN /\ last' = "rolled_back"
            /\ UNCHANGED <<conn, pending>>
       ELSE IF store = "down"
       THEN /\ last' = "failed"
            /\ conn' = "lost"
            /\ pending' = <<>>
       ELSE /\ last' = "rolled_back"
            /\ conn' = "idle"
            /\ pending' = <<>>
    /\ UNCHANGED <<pc, store, broker, attempts, slept, rows, bus, subscribed,
                   msg, cur, exitKind, connects>>

\* KeyboardInterrupt: raised in the main thread wherever it is.  Inside the
\* try of lines 240-242 it reaches the handler of line 243; before, nothing
\* catches it.
Interrupt ==
    /\ pc \in {"db_connect", "db_sleep", "setup", "bus_connect", "loop"}
    /\ IF pc \in {"bus_connect", "loop"}
       THEN /\ pc' = "sd_disconnect"
            /\ exitKind' = exitKind
       ELSE /\ pc' = "exited"
            /\ exitKind' = Uncaught(pc, "KeyboardInterrupt")
    /\ hpc' = "idle"
    /\ last' = IF hpc # "idle" THEN "interrupted" ELSE last
    /\ UNCHANGED <<store, broker, attempts, slept, conn, pending, rows, bus,
                   subscribed, msg, cur, calls, connects>>

\* A handler that goes on to close the store without disconnecting the bus.
ShutdownDisconnectSkipped ==
    /\ pc = "sd_disconnect"
    /\ pc' = "sd_close"
    /\ UNCHANGED <<hpc, store, broker, attempts, slept, conn, pending, rows,
                   bus, subscribed, msg, cur, last, calls, exitKind, connects>>

\* Line 245: client.disconnect().
ShutdownDisconnect ==
    /\ pc = "sd_disconnect"
    /\ bus' = "closed"
    /\ subscribed' = FALSE
    /\ pc' = "sd_close"
    /\ UNCHANGED <<hpc, store, broker, attempts, slept, conn, pending, rows,
                   msg, cur, last, calls, exitKind, connects>>

\* Line 246: db_conn.close(); what was not committed is discarded.
ShutdownClose ==
    /\ pc = "sd_close"
    /\ conn' = "closed"
    /\ pending' = <<>>
    /\ pc' = "exited"
    /\ exitKind' = [kind |-> "interrupt", at |-> "", exc |-> ""]
    /\ UNCHANGED <<hpc, store, broker, attempts, slept, rows, bus, subscribed,
                   msg, cur, last, calls, connects>>

\* Lines 247-249: except Exception logs and closes the store connection.
ErrorClose ==
    /\ pc = "err_close"
    /\ conn' = "closed"
    /\ pending' = <<>>
    /\ pc' = "exited"
    /\ exitKind' = [kind |-> "error", at |-> "", exc |-> ""]
    /\ UNCHANGED <<hpc, store, broker, attempts, slept, rows, bus, subscribed,
                   msg, cur, last, calls, connects>>

Next ==
    \/ StoreChange
    \/ BrokerChange
    \/ ConnectAttempt
    \/ RetrySleep
    \/ Setup
    \/ BusConnect
    \/ on_connect
    \/ on_disconnect
    \/ Reconnect
    \/ Receive
    \/ on_message
    \/ Execute
    \/ Commit
    \/ Rollback
    \/ Interrupt
    \/ ShutdownDisconnect
    \/ ShutdownClose
    \/ ErrorClose

Spec == Init /\ [][Next]_vars

\* The startup of the service, no operator interrupt arriving: the attempts
\* and the waits of get_db_connection are taken whenever they can be.
NextStartup ==
    \/ StoreChange
    \/ BrokerChange
    \/ ConnectAttempt
    \/ RetrySleep
    \/ Setup
    \/ BusConnect

SpecStartup ==
    Init /\ [][NextStartup]_vars /\ WF_vars(ConnectAttempt) /\ WF_vars(RetrySleep)

-----------------------------------------------------------------------------
(* Normalisation alone: the listener is running with the store connected.  *)
(* A device composes a JSON object key by key and publishes it, with or    *)
(* without the marker in front; on_message is called with the payload and  *)
(* runs up to its first use of db_conn.                                    *)

NumKeys(o) == Cardinality({k \in Keys : o[k].t # "absent"})

InitNorm ==
    /\ pc = "loop"
    /\ store = "up"
    /\ broker = "up"
    /\ attempts = 1
    /\ slept = 0
    /\ conn = "idle"
    /\ pending = <<>>
    /\ rows = <<>>
    /\ bus = "connected"
    /\ subscribed = TRUE
    /\ \/ hpc = "composing" /\ msg = <<JsonObj(EmptyDict)>>
       \/ hpc = "received" /\ msg \in NormPayloads
    /\ cur = EmptyDict
    /\ last = ""
    /\ calls = <<>>
    /\ exitKind = Running
    /\ connects = 1

\* The device gives the object one more key.
ComposeField ==
    /\ hpc = "composing"
    /\ NumKeys(msg[1].obj) < MaxKeys
    /\ \E k \in Keys :
          /\ msg[1].obj[k].t = "absent"
          /\ \E v \in ValuesOf(k) :
                msg' = <<JsonObj([msg[1].obj EXCEPT ![k] = v])>>
    /\ UNCHANGED <<pc, hpc, store, broker, attempts, slept, conn, pending,
                   rows, bus, subscribed, cur, last, calls, exitKind, connects>>

\* The device publishes the object and the client calls on_message.
Publish ==
    /\ hpc = "composing"
    /\ hpc' = "received"
    /\ msg' \in {msg, <<Marker>> \o msg}
    /\ UNCHANGED <<pc, store, broker, attempts, slept, conn, pending, rows,
                   bus, subscribed, cur, last, calls, exitKind, connects>>

NextNorm ==
    \/ ComposeField
    \/ Publish
    \/ on_message

SpecNorm == InitNorm /\ [][NextNorm]_vars

-----------------------------------------------------------------------------
(* Properties *)

\* The payload is a JSON object, alone or behind the marker and text with no
\* '{' in it.
IsObjectMessage(p) ==
    /\ Len(p) >= 1
    /\ p[Len(p)].kind = "json" /\ p[Len(p)].lit.t = "dict"
    /\ \/ Len(p) = 1
       \/ /\ p[1].kind = "marker"
          /\ \A i \in 2..(Len(p) - 1) : p[i].kind = "junk"

\* The object such a payload carries.
InboundObject(p) == p[Len(p)].obj

\* C1: whatever the payload, every exception raised while on_message handles
\* it is caught inside on_message: no call of on_message ends with an
\* exception leaving it, and no message takes the process to the handler that
\* shuts the listener down.
C1_EveryExceptionCaught ==
    /\ last # "raised"
    /\ (pc = "err_close" => msg = <<>>)

\* C2: once a call of store_sensor_data that met a store-level failure (in
\* execute or in commit) has ended, db_conn is in a clean transactional
\* state, no transaction open or aborted and the handle usable for the next
\* record.
C2_CleanAfterStoreFailure ==
    (/\ pc = "loop" /\ hpc = "idle"
     /\ last \in {"rolled_back", "failed"}
     /\ Len(calls) >= 1 /\ calls[1] = "execute") => conn = "idle"

\* C3: the record handed to the INSERT for a JSON object without a device_id
\* key has device_id "unknown".
C3_DeviceIdDefaultsToUnknown ==
    (/\ hpc = "execute"
     /\ IsObjectMessage(msg)
     /\ InboundObject(msg)["device_id"].t = "absent")
        => cur["device_id"] = VStr(<<"unknown">>)

\* C4: a payload that is a valid JSON object, with or without the marker, is
\* never dropped by on_message before store_sensor_data is called, whatever
\* its timestamp.
C4_ObjectReachesWriter ==
    IsObjectMessage(msg) => last # "dropped"

\* C5: coercion of the numeric fields never aborts the record: the except
\* handlers of store_sensor_data are reached only after the INSERT was
\* attempted.
C5_CoercionNeverAborts ==
    hpc = "rollback" => (Len(calls) >= 1 /\ calls[1] = "execute")

\* C6 as stated: the time of every record handed to the INSERT is a timestamp
\* with a timezone.
C6_TimeAlwaysAware ==
    hpc = "execute" => (cur["time"].t = "datetime" /\ cur["time"].s[2] # "")

\* C6 as amended: an inbound timestamp that is a non-empty string gives a
\* time with a timezone (UTC when it ends in Z or has no offset, the offset
\* it names otherwise); an inbound timestamp that is null, empty or zero is
\* handed over unchanged, and without an inbound timestamp time is the
\* inbound time key, or null.
C6_TimeRule ==
    (hpc = "execute" /\ IsObjectMessage(msg)) =>
        LET ts == InboundObject(msg)["timestamp"]
            tm == InboundObject(msg)["time"]
        IN  IF ts.t = "absent"
            THEN cur["time"] = (IF tm.t = "absent" THEN None ELSE tm)
            ELSE IF ts.t = "str" /\ ts.s # <<>>
            THEN /\ cur["time"].t = "datetime"
                 /\ cur["time"].s[1] = ts.s[1]
                 /\ cur["time"].s[2] =
                        (IF ts.s[Len(ts.s)] = "Z" \/ Len(ts.s) = 1
                         THEN "UTC" ELSE ts.s[2])
            ELSE cur["time"] = ts

C6_Witness ==
    /\ hpc = "execute"
    /\ InboundObject(msg)["timestamp"] = VStr(<<"2025-04-21T17:21:47", "+02:00">>)
    /\ cur["time"] = VDatetime("2025-04-21T17:21:47", "+02:00")

\* C7 as stated: the event_type of every record handed to the INSERT is a
\* string, never null.
C7_EventTypeNeverNull ==
    hpc = "execute" => cur["event_type"].t = "str"

\* C7 as amended: event_type is "unknown" when the inbound object has no
\* event_type key and the inbound value, unchanged, when it has one.
C7_EventTypeRule ==
    (hpc = "execute" /\ IsObjectMessage(msg)) =>
        LET et == InboundObject(msg)["event_type"]
        IN  cur["event_type"] = (IF et.t = "absent" THEN VStr(<<"unknown">>) ELSE et)

C7_Witness ==
    /\ hpc = "execute"
    /\ InboundObject(msg)["event_type"].t = "absent"
    /\ InboundObject(msg)["temperature"].t # "absent"
    /\ cur["event_type"] = VStr(<<"unknown">>)

Returned == conn # "none"

\* C9 as stated: no outcome of a connection attempt makes get_db_connection
\* raise to its caller.
C9_NeverRaises ==
    ~(exitKind.at = "db_connect" /\ exitKind.exc # "KeyboardInterrupt")

\* C9 as amended: get_db_connection returns nothing but a usable connection;
\* after an attempt that raised OperationalError it waits 5 seconds, the same
\* every time, and attempts again, however many attempts were made; only an
\* exception that is not an OperationalError leaves it.
C9_RetryRule ==
    /\ slept \in {0, 5}
    /\ (pc = "db_sleep" => (~Returned /\ ENABLED RetrySleep))
    /\ (pc = "db_connect" => (~Returned /\ ENABLED ConnectAttempt))
    /\ (pc = "setup" => conn = "idle")
    /\ (exitKind.at = "db_connect" => exitKind.exc # "OperationalError")

C9_Witness ==
    /\ pc = "setup" /\ conn = "idle"
    /\ attempts >= 4 /\ slept = 5

\* C10 as stated: if the store ends up reachable for good, get_db_connection
\* eventually returns a connection; if the store is never reachable it never
\* returns and the bus client is never created.
C10_EventuallyReturns ==
    /\ <>[](store = "up") => <>Returned
    /\ [](store = "down") => [](~Returned /\ bus = "none")

\* C10 as amended: if the store ends up reachable for good, get_db_connection
\* eventually returns a connection unless an attempt before that raised an
\* exception other than OperationalError, which ended the process; if the
\* store is never reachable it never returns and the bus client is never
\* created.
C10_ReturnsOrDies ==
    /\ <>[](store = "up") =>
          <>(Returned \/ (exitKind.at = "db_connect"
                          /\ exitKind.exc # "OperationalError"))
    /\ [](store = "down") => [](~Returned /\ bus = "none")

C10_Witness ==
    /\ Returned /\ store = "up" /\ bus = "new"
    /\ attempts = 2 /\ slept = 5

\* C11: an interrupt arriving while a message is handled does not cut the
\* write short: when the shutdown steps start, the call of store_sensor_data
\* that was in flight has reached its commit or its rollback, and db_conn is
\* never closed with an executed but uncommitted INSERT pending.
C11_WriteNotCutShort ==
    pc \in {"sd_disconnect", "sd_close"} =>
        /\ (calls # <<>> => calls[Len(calls)] \in {"commit", "rollback"})
        /\ pending = <<>>

\* C12: after an interrupt in the listener loop the bus is disconnected
\* first and the store connection closed second, both before the process
\* exits, and once the bus is disconnected no message is received or handled.
C12_OrderlyShutdown ==
    /\ (pc = "sd_disconnect" => (bus # "closed" /\ conn # "closed"))
    /\ (pc = "sd_close" => (bus = "closed" /\ conn # "closed"))
    /\ (exitKind.kind = "interrupt" =>
            (pc = "exited" /\ bus = "closed" /\ conn = "closed"))
    /\ (bus = "closed" =>
            (/\ hpc = "idle"
             /\ ~ENABLED Receive /\ ~ENABLED on_message
             /\ ~ENABLED Execute /\ ~ENABLED Commit /\ ~ENABLED Rollback))

C12_Witness ==
    /\ exitKind.kind = "interrupt"
    /\ msg # <<>> /\ last = "stored"
    /\ bus = "closed" /\ conn = "closed"

\* C13: db_conn is given a handle once, by get_db_connection at startup, and
\* never again: get_db_connection is not re-entered once it has returned, a
\* handle a failed write has broken stays the handle, only the two shutdown
\* handlers close it, and once it is closed the process has exited and no
\* INSERT, commit or rollback can be issued on it.
C13_OneHandle ==
    /\ [](conn = "closed" =>
            (/\ pc = "exited" /\ hpc = "idle"
             /\ ~ENABLED Execute /\ ~ENABLED Commit /\ ~ENABLED Rollback))
    /\ [](Returned => pc \notin {"db_connect", "db_sleep"})
    /\ [][/\ (~Returned /\ Returned') => (pc = "db_connect" /\ conn' = "idle")
          /\ Returned => Returned'
          /\ conn = "lost" => conn' \in {"lost", "closed"}
          /\ conn = "closed" => conn' = "closed"
          /\ (conn # "closed" /\ conn' = "closed") =>
                (pc \in {"sd_close", "err_close"} /\ pc' = "exited")]_vars

C13_Witness ==
    /\ pc = "loop" /\ hpc = "execute"
    /\ conn = "lost" /\ rows # <<>>

\* store_sensor_data is running: on_message has called it and it has not ended.
InCall == hpc \in {"execute", "commit", "rollback"}

\* C14: the last call a call of store_sensor_data makes on db_conn is a
\* commit or a rollback; it executes at most one INSERT; it commits only after
\* the INSERT executed without error; and a row is added to the store exactly
\* when its commit succeeds, the row being the record of the call.
C14_CommitOrRollback ==
    [][/\ (InCall /\ hpc' = "idle") =>
             (/\ calls' # <<>>
              /\ calls'[Len(calls')] \in {"commit", "rollback"})
       /\ Cardinality({i \in DOMAIN calls' : calls'[i] = "execute"}) <= 1
       /\ (Len(calls') > Len(calls) /\ calls'[Len(calls')] = "commit") =>
             (/\ calls = <<"execute">>
              /\ conn = "intrans" /\ pending = <<Row(cur)>>)
       /\ (rows' # rows) <=> (hpc = "commit" /\ last' = "stored")
       /\ (rows' # rows) => rows' = Append(rows, Row(cur))]_vars

\* C15: the rows of the store only grow: every step leaves the rows there
\* were as they were, in place, and a commit that succeeds adds the row of
\* its record whether or not a row with the same time and device_id is
\* already there.
C15_AppendOnly ==
    [][/\ Len(rows') >= Len(rows)
       /\ SubSeq(rows', 1, Len(rows)) = rows
       /\ (hpc = "commit" /\ last' = "stored") =>
             rows' = Append(rows, Row(cur))]_vars

C15_Witness ==
    /\ Len(rows) = 2
    /\ rows[1]["time"] = rows[2]["time"]
    /\ rows[1]["device_id"] = rows[2]["device_id"]
    /\ rows[1]["time"].t = "datetime"

\* on_message has run on msg up to the call of store_sensor_data or to the
\* end of one of its except handlers.
Handled == hpc \in {"execute", "rollback"} \/ last \in {"dropped", "raised"}

\* on_message called store_sensor_data.
ReachedWriter == hpc \in {"execute", "rollback"}

\* The text is one JSON object and nothing else, its timestamp one that
\* parses.
IsWholeObject(text) ==
    /\ Len(text) = 1
    /\ text[1].kind = "json" /\ text[1].lit.t = "dict"
    /\ ParseTimestamp(text[1].obj).exc = ""

\* C16: for a payload that decodes to text: with the marker in the text, what
\* is parsed is the text from its first '{' on, what precedes it being
\* ignored; without the marker the whole text is parsed; and a text with no
\* '{' in it, marker or not, never reaches store_sensor_data: the raw text is
\* logged, no record is made and nothing is issued on db_conn.
C16_Extraction ==
    (Handled /\ decode(msg).exc = "") =>
        LET text == decode(msg).text
            json_text == IF HasMarker(text) /\ find(text) # -1
                         THEN SubSeq(text, find(text), Len(text))
                         ELSE text
        IN  /\ ReachedWriter <=> IsWholeObject(json_text)
            /\ hpc = "execute" =>
                  cur["device_id"] =
                      (IF json_text[1].obj["device_id"].t = "absent"
                       THEN None ELSE json_text[1].obj["device_id"])
            /\ (\A i \in DOMAIN text : ~HasBrace(text[i])) =>
                  (/\ last = "dropped" /\ hpc = "idle"
                   /\ cur = EmptyDict /\ calls = <<>> /\ pending = <<>>)

C16_Witness ==
    /\ msg = <<Marker, Junk, JsonObj(Telemetry)>>
    /\ hpc = "execute"
    /\ cur["device_id"] = VStr(<<"d1">>)

\* A str that is the text of no number.
NonNumericString(v) ==
    /\ v.t = "str"
    /\ ~(Len(v.s) = 1 /\ v.s[1] \in IntLiterals \cup FloatLiterals)

\* C17: when the inbound object gives a numeric field a string that is no
\* number, the record handed to the INSERT has None in that field, and every
\* other field of db_data, and whether a record is made at all, is what the
\* same object without that key gives.
C17_CoercionFrame ==
    (ReachedWriter /\ IsObjectMessage(msg)) =>
        \A i \in DOMAIN numeric_fields :
            LET k == numeric_fields[i]
                inbound == InboundObject(msg)
                without == BuildDbData(
                               ParseTimestamp([inbound EXCEPT ![k] = Absent]).data)
            IN  NonNumericString(inbound[k]) =>
                    /\ (hpc = "rollback") <=> (without.exc # "")
                    /\ hpc = "execute" => cur[k] = None
                    /\ \A j \in Keys \ {k} : cur[j] = without.db_data[j]

C17_Witness ==
    /\ hpc = "execute"
    /\ InboundObject(msg)["humidity"] = VStr(<<"abc">>)
    /\ InboundObject(msg)["temperature"] = VStr(<<"21.5">>)
    /\ cur["humidity"] = None
    /\ cur["temperature"] = VFloat("21.5")

\* What the listener itself holds: everything but the state of the bus
\* connection and of the two servers.
listener == <<pc, hpc, attempts, slept, conn, pending, rows, msg, cur, last,
              calls, exitKind, connects>>

\* C18: every step that completes a connection to the broker, the first or a
\* reconnection, is a call of on_connect that leaves the client subscribed;
\* the client is never connected without its subscription and no message is
\* delivered without it; the loss of the connection changes nothing in the
\* listener, and the reconnection that follows is not a step of the
\* listener's code.
C18_SubscribedWhenConnected ==
    /\ [](bus = "connected" => subscribed)
    /\ []((ENABLED Receive \/ hpc = "received") => connects >= 1)
    /\ [][/\ (bus # "connected" /\ bus' = "connected") =>
                (/\ bus = "connecting" /\ subscribed'
                 /\ connects' = Min(connects + 1, MaxConnects)
                 /\ hpc = "idle" /\ hpc' = "idle")
          /\ msg' # msg => (bus = "connected" /\ subscribed)
          /\ (bus' = "disconnected" /\ bus # "disconnected") =>
                (~subscribed' /\ UNCHANGED listener)
          /\ (bus = "disconnected" /\ bus' # "disconnected") =>
                (/\ bus' \in {"connecting", "closed"}
                 /\ bus' = "connecting" => UNCHANGED listener)]_vars

C18_Witness ==
    /\ connects = 2 /\ rows # <<>>
    /\ bus = "connected" /\ subscribed
    /\ hpc = "received"

\* C19: a message whose handling ends before store_sensor_data is called
\* leaves the store and db_conn as they were: the step that ends its
\* handling issues nothing on db_conn, and while it is the latest message
\* nothing but the operator's shutdown changes db_conn, the pending
\* statements or the rows.
C19_FailureLeavesStoreAlone ==
    [][/\ (hpc = "received" /\ last' \in {"dropped", "raised"}) =>
             (calls' = <<>> /\ UNCHANGED <<conn, pending, rows>>)
       /\ (last \in {"dropped", "raised"}
           /\ pc \notin {"sd_disconnect", "sd_close"}) =>
             UNCHANGED <<conn, pending, rows>>]_vars

\* C20: once get_db_connection has returned, the process does not end, by
\* whatever path, with db_conn not closed.
C20_ClosedBeforeExit ==
    (pc = "exited" /\ Returned) => conn = "closed"

=============================================================================
